---- MODULE Spec2Model ----
(***************************************************************************)
(* Abductive revision search (KBBase, src/kb/kb.py) and its LRU result     *)
(* cache (Cache / abl_cache, src/utils/cache.py).                          *)
(*                                                                         *)
(* Python values are modelled as follows.  A label is an integer and a     *)
(* pseudo-label list is a sequence of labels.  A reasoning result or a     *)
(* ground truth y is a tagged record: Num(n) an int, Str(n) a non-numeric  *)
(* object compared structurally, None the Python None.  List indices are   *)
(* 0-based as in the source; the element of index i is seq[i + 1].         *)
(***************************************************************************)
EXTENDS Integers, Sequences, FiniteSets, TLC

(* ------------------------------ bounds -------------------------------- *)
\* longest pseudo-label list given to the search
MaxLen == 2
\* largest max_revision_num given to the search
MaxRev == 3
\* largest require_more_revision given to the search
MaxExtra == 1
\* lookups (hits + misses) made on one cache
MaxCalls == 4

(* --------------------------- Python values ---------------------------- *)
None == [tag |-> "none", v |-> 0]
Num(n) == [tag |-> "num", v |-> n]
Str(n) == [tag |-> "str", v |-> n]

Abs(n) == IF n < 0 THEN 0 - n ELSE n

RECURSIVE Sum(_)
Sum(s) == IF s = <<>> THEN 0 ELSE Head(s) + Sum(Tail(s))

RECURSIVE Flatten(_)
\* list.extend over a list of lists
Flatten(ss) == IF ss = <<>> THEN <<>> ELSE Head(ss) \o Flatten(Tail(ss))

(* ------------------------------ oracles ------------------------------- *)
\* logic_forward is abstract: these are the user-supplied overrides the model
\* draws from.  "sum" and "even" declare (self, pseudo_label); "sumctx"
\* declares (self, pseudo_label, x); "tagged" returns a non-numeric object.
Oracles == {"sum", "even", "tagged", "sumctx"}

\* len(inspect.getfullargspec(self.logic_forward).args): self is counted
ArgspecLen(oracle) == IF oracle = "sumctx" THEN 3 ELSE 2

\* self.logic_forward(candidate, *xs), xs being (x,) or ()
logic_forward(oracle, candidate, xs) ==
    CASE oracle = "sum" -> Num(Sum(candidate))
      [] oracle = "even" -> IF Sum(candidate) % 2 = 0 THEN Num(Sum(candidate)) ELSE None
      [] oracle = "tagged" -> Str(Sum(candidate))
      [] oracle = "sumctx" -> Num(Sum(candidate) + Sum(xs))

(* ------------------------- KBBase construction ------------------------ *)
\* KBBase_init that leaves the cache on for an oracle that takes the context
KBBase_init_KeepCache(pseudo_label_list, max_err, use_cache, key_func, cache_size, oracle) ==
    [pseudo_label_list |-> pseudo_label_list,
     max_err |-> max_err,
     use_cache |-> use_cache,
     key_func |-> key_func,
     cache_size |-> cache_size,
     oracle |-> oracle,
     num_args |-> ArgspecLen(oracle) - 1,
     requested_use_cache |-> use_cache,
     warned |-> FALSE]

\* KBBase_init that turns the cache off for an oracle of one argument
KBBase_init_MinimalArity(pseudo_label_list, max_err, use_cache, key_func, cache_size, oracle) ==
    LET num_args == ArgspecLen(oracle) - 1
        disable == num_args = 1 /\ use_cache
    IN  [pseudo_label_list |-> pseudo_label_list,
         max_err |-> max_err,
         use_cache |-> IF disable THEN FALSE ELSE use_cache,
         key_func |-> key_func,
         cache_size |-> cache_size,
         oracle |-> oracle,
         num_args |-> num_args,
         requested_use_cache |-> use_cache,
         warned |-> disable]

\* KBBase.__init__ with logic_forward overridden by the oracle; warned tells
\* whether print_log(..., level=logging.WARNING) was called
KBBase_init(pseudo_label_list, max_err, use_cache, key_func, cache_size, oracle) ==
    LET num_args == ArgspecLen(oracle) - 1
        disable == num_args = 2 /\ use_cache
    IN  [pseudo_label_list |-> pseudo_label_list,
         max_err |-> max_err,
         use_cache |-> IF disable THEN FALSE ELSE use_cache,
         key_func |-> key_func,
         cache_size |-> cache_size,
         oracle |-> oracle,
         num_args |-> num_args,
         requested_use_cache |-> use_cache,
         warned |-> disable]

(* --------------------------- Equality Checker ------------------------- *)
IsNumeric(val) == val.tag = "num"

\* _check_equal without the test for None
_check_equal_NoNoneTest(kb, reasoning_result, y) ==
    IF IsNumeric(reasoning_result) /\ IsNumeric(y)
    THEN Abs(reasoning_result.v - y.v) <= kb.max_err
    ELSE reasoning_result = y

_check_equal(kb, reasoning_result, y) ==
    IF reasoning_result = None THEN FALSE
    ELSE IF IsNumeric(reasoning_result) /\ IsNumeric(y)
         THEN Abs(reasoning_result.v - y.v) <= kb.max_err
         ELSE reasoning_result = y

(* --------------------------- itertools -------------------------------- *)
RECURSIVE product_LeftmostFastest(_, _)
\* product in which the leftmost element advances fastest
product_LeftmostFastest(labels, k) ==
    IF k = 0 THEN << <<>> >>
    ELSE LET rest == product_LeftmostFastest(labels, k - 1)
         IN  Flatten([j \in 1..Len(rest) |->
                        [i \in 1..Len(labels) |-> <<labels[i]>> \o rest[j]]])

RECURSIVE product(_, _)
\* itertools.product(labels, repeat=k): rightmost element advances fastest
product(labels, k) ==
    IF k = 0 THEN << <<>> >>
    ELSE LET rest == product(labels, k - 1)
         IN  Flatten([i \in 1..Len(labels) |->
                        [j \in 1..Len(rest) |-> <<labels[i]>> \o rest[j]]])

RECURSIVE CombinationsFrom(_, _, _)
\* the k-subsets of lo..n-1 as ascending tuples, in lexicographic order
CombinationsFrom(lo, n, k) ==
    IF k = 0 THEN << <<>> >>
    ELSE IF n - lo < k THEN <<>>
    ELSE LET with == CombinationsFrom(lo + 1, n, k - 1)
         IN  [j \in 1..Len(with) |-> <<lo>> \o with[j]]
             \o CombinationsFrom(lo + 1, n, k)

\* itertools.combinations(range(n), k)
combinations(n, k) == CombinationsFrom(0, n, k)

(* --------------------------- Revision Search -------------------------- *)
\* candidate = pseudo_label.copy(); candidate[idx] = c[i] for i, idx
Overlay(pseudo_label, revision_idx, c) ==
    [p \in 1..Len(pseudo_label) |->
        IF \E i \in 1..Len(revision_idx) : revision_idx[i] + 1 = p
        THEN c[CHOOSE i \in 1..Len(revision_idx) : revision_idx[i] + 1 = p]
        ELSE pseudo_label[p]]

\* the argument tuple handed to logic_forward after the candidate
ContextArgs(kb, x) == IF kb.num_args = 2 THEN <<x>> ELSE <<>>

RECURSIVE KeepMatches_Unpaired(_, _, _, _)
\* KeepMatches that appends the reasoning result before the equality test
KeepMatches_Unpaired(kb, todo, y, x) ==
    IF todo = <<>> THEN [candidates |-> <<>>, reasoning_results |-> <<>>]
    ELSE LET candidate == Head(todo)
             reasoning_result == logic_forward(kb.oracle, candidate, ContextArgs(kb, x))
             more == KeepMatches_Unpaired(kb, Tail(todo), y, x)
         IN  [candidates |-> IF _check_equal(kb, reasoning_result, y)
                             THEN <<candidate>> \o more.candidates
                             ELSE more.candidates,
              reasoning_results |-> <<reasoning_result>> \o more.reasoning_results]

RECURSIVE KeepMatches(_, _, _, _)
\* the for-loop of revise_at_idx over the candidates still to try
KeepMatches(kb, todo, y, x) ==
    IF todo = <<>> THEN [candidates |-> <<>>, reasoning_results |-> <<>>]
    ELSE LET candidate == Head(todo)
             reasoning_result == logic_forward(kb.oracle, candidate, ContextArgs(kb, x))
             more == KeepMatches(kb, Tail(todo), y, x)
         IN  IF _check_equal(kb, reasoning_result, y)
             THEN [candidates |-> <<candidate>> \o more.candidates,
                   reasoning_results |-> <<reasoning_result>> \o more.reasoning_results]
             ELSE more

\* revise_at_idx that tries only the candidates that differ from pseudo_label
\* at every index of revision_idx
revise_at_idx_OnlyChanged(kb, pseudo_label, y, x, revision_idx) ==
    LET abduce_c == product(kb.pseudo_label_list, Len(revision_idx))
        all == [j \in 1..Len(abduce_c) |-> Overlay(pseudo_label, revision_idx, abduce_c[j])]
        changed(candidate) ==
            \A i \in 1..Len(revision_idx) :
                candidate[revision_idx[i] + 1] /= pseudo_label[revision_idx[i] + 1]
    IN  KeepMatches(kb, SelectSeq(all, changed), y, x)

revise_at_idx(kb, pseudo_label, y, x, revision_idx) ==
    LET abduce_c == product(kb.pseudo_label_list, Len(revision_idx))
    IN  KeepMatches(kb,
                    [j \in 1..Len(abduce_c) |-> Overlay(pseudo_label, revision_idx, abduce_c[j])],
                    y, x)

\* _revision that returns at the first index set that has a match
_revision_FirstSubset(kb, revision_num, pseudo_label, y, x) ==
    LET revision_idx_list == combinations(Len(pseudo_label), revision_num)
        found == [j \in 1..Len(revision_idx_list) |->
                    revise_at_idx(kb, pseudo_label, y, x, revision_idx_list[j])]
        hits == {j \in 1..Len(found) : found[j].candidates /= <<>>}
    IN  IF hits = {} THEN [candidates |-> <<>>, reasoning_results |-> <<>>]
        ELSE found[CHOOSE j \in hits : \A i \in hits : j <= i]

_revision(kb, revision_num, pseudo_label, y, x) ==
    LET revision_idx_list == combinations(Len(pseudo_label), revision_num)
        found == [j \in 1..Len(revision_idx_list) |->
                    revise_at_idx(kb, pseudo_label, y, x, revision_idx_list[j])]
    IN  [candidates |-> Flatten([j \in 1..Len(found) |-> found[j].candidates]),
         reasoning_results |-> Flatten([j \in 1..Len(found) |-> found[j].reasoning_results])]

RECURSIVE FirstLoop_BoundFirst(_, _, _, _, _, _)
\* FirstLoop with the budget test moved in front of the test for matches
FirstLoop_BoundFirst(kb, pseudo_label, y, x, max_revision_num, revision_num) ==
    LET new == _revision(kb, revision_num, pseudo_label, y, x)
    IN  IF revision_num >= max_revision_num
        THEN [exit |-> "return", min_revision_num |-> -1,
              candidates |-> <<>>, reasoning_results |-> <<>>]
        ELSE IF Len(new.candidates) > 0
        THEN [exit |-> "break", min_revision_num |-> revision_num,
              candidates |-> new.candidates, reasoning_results |-> new.reasoning_results]
        ELSE IF revision_num + 1 > Len(pseudo_label)
        THEN [exit |-> "exhausted", min_revision_num |-> -1,
              candidates |-> <<>>, reasoning_results |-> <<>>]
        ELSE FirstLoop_BoundFirst(kb, pseudo_label, y, x, max_revision_num, revision_num + 1)

RECURSIVE FirstLoop(_, _, _, _, _, _)
\* the first for-loop of _abduce_by_search, from level revision_num on.  It is
\* left by break (matches found), by return [], [] or by running out of
\* levels, in which case min_revision_num was never assigned.
FirstLoop(kb, pseudo_label, y, x, max_revision_num, revision_num) ==
    LET new == _revision(kb, revision_num, pseudo_label, y, x)
    IN  IF Len(new.candidates) > 0
        THEN [exit |-> "break", min_revision_num |-> revision_num,
              candidates |-> new.candidates, reasoning_results |-> new.reasoning_results]
        ELSE IF revision_num >= max_revision_num
        THEN [exit |-> "return", min_revision_num |-> -1,
              candidates |-> <<>>, reasoning_results |-> <<>>]
        ELSE IF revision_num + 1 > Len(pseudo_label)
        THEN [exit |-> "exhausted", min_revision_num |-> -1,
              candidates |-> <<>>, reasoning_results |-> <<>>]
        ELSE FirstLoop(kb, pseudo_label, y, x, max_revision_num, revision_num + 1)

RECURSIVE SecondLoop_NoBound(_, _, _, _, _, _, _, _)
\* SecondLoop without the test revision_num > max_revision_num
SecondLoop_NoBound(kb, pseudo_label, y, x, max_revision_num, revision_num, last, acc) ==
    IF revision_num > last THEN acc
    ELSE LET new == _revision(kb, revision_num, pseudo_label, y, x)
         IN  SecondLoop_NoBound(kb, pseudo_label, y, x, max_revision_num, revision_num + 1, last,
                        [candidates |-> acc.candidates \o new.candidates,
                         reasoning_results |-> acc.reasoning_results \o new.reasoning_results])

RECURSIVE SecondLoop(_, _, _, _, _, _, _, _)
\* the second for-loop, from level revision_num up to last (inclusive)
SecondLoop(kb, pseudo_label, y, x, max_revision_num, revision_num, last, acc) ==
    IF revision_num > last THEN acc
    ELSE IF revision_num > max_revision_num THEN acc
    ELSE LET new == _revision(kb, revision_num, pseudo_label, y, x)
         IN  SecondLoop(kb, pseudo_label, y, x, max_revision_num, revision_num + 1, last,
                        [candidates |-> acc.candidates \o new.candidates,
                         reasoning_results |-> acc.reasoning_results \o new.reasoning_results])

\* the outcome of a call: returned a value or raised an exception
Return(value) == [raised |-> "", candidates |-> value.candidates,
                  reasoning_results |-> value.reasoning_results]
Raise(exc) == [raised |-> exc, candidates |-> <<>>, reasoning_results |-> <<>>]

_abduce_by_search(kb, pseudo_label, y, x, max_revision_num, require_more_revision) ==
    LET first == FirstLoop(kb, pseudo_label, y, x, max_revision_num, 0)
    IN  CASE first.exit = "return" -> Return(first)
          [] first.exit = "exhausted" -> Raise("UnboundLocalError")
          [] first.exit = "break" ->
               Return(SecondLoop(kb, pseudo_label, y, x, max_revision_num,
                                 first.min_revision_num + 1,
                                 first.min_revision_num + require_more_revision,
                                 first))

(* ----------------------- what the search explores ---------------------- *)
\* the calls of logic_forward made by _revision(revision_num, ...), in the
\* order they are made: for every index set, for every tuple of labels, the
\* candidate handed to the oracle
RevisionCalls(kb, revision_num, pseudo_label) ==
    LET revision_idx_list == combinations(Len(pseudo_label), revision_num)
        abduce_c == product(kb.pseudo_label_list, revision_num)
    IN  Flatten([j \in 1..Len(revision_idx_list) |->
                   [i \in 1..Len(abduce_c) |->
                       [revision_idx |-> revision_idx_list[j],
                        candidate |-> Overlay(pseudo_label, revision_idx_list[j], abduce_c[i])]]])

RECURSIVE SecondLoopLevels_NoBound(_, _, _)
\* SecondLoopLevels without the test revision_num > max_revision_num
SecondLoopLevels_NoBound(max_revision_num, revision_num, last) ==
    IF revision_num > last THEN <<>>
    ELSE <<revision_num>> \o SecondLoopLevels_NoBound(max_revision_num, revision_num + 1, last)

RECURSIVE SecondLoopLevels(_, _, _)
\* the values of revision_num the second for-loop calls _revision with
SecondLoopLevels(max_revision_num, revision_num, last) ==
    IF revision_num > last THEN <<>>
    ELSE IF revision_num > max_revision_num THEN <<>>
    ELSE <<revision_num>> \o SecondLoopLevels(max_revision_num, revision_num + 1, last)

RECURSIVE LevelsFrom(_, _, _, _, _, _, _)
\* the values of revision_num _abduce_by_search calls _revision with, from
\* the iteration revision_num of the first for-loop on: after a break the
\* second for-loop follows with min_revision_num = revision_num
LevelsFrom(kb, pseudo_label, y, x, max_revision_num, require_more_revision, revision_num) ==
    IF Len(_revision(kb, revision_num, pseudo_label, y, x).candidates) > 0
    THEN <<revision_num>>
         \o SecondLoopLevels(max_revision_num, revision_num + 1,
                             revision_num + require_more_revision)
    ELSE IF revision_num >= max_revision_num THEN <<revision_num>>
    ELSE IF revision_num + 1 > Len(pseudo_label) THEN <<revision_num>>
    ELSE <<revision_num>>
         \o LevelsFrom(kb, pseudo_label, y, x, max_revision_num, require_more_revision,
                       revision_num + 1)

\* the values of revision_num _abduce_by_search calls _revision with, in order
Levels(kb, pseudo_label, y, x, max_revision_num, require_more_revision) ==
    LevelsFrom(kb, pseudo_label, y, x, max_revision_num, require_more_revision, 0)

\* the calls of logic_forward made by _abduce_by_search, in order, levels
\* being the values of revision_num it calls _revision with
OracleCalls(kb, pseudo_label, levels) ==
    Flatten([i \in 1..Len(levels) |-> RevisionCalls(kb, levels[i], pseudo_label)])

(* ------------------------------ Cache ---------------------------------- *)
\* a pseudo-label list as the Python object handed to key_func
List(seq) == [tag |-> "list", v |-> seq]

\* utils.to_hashable: a list becomes the tuple of its items, anything else
\* is its own key
to_hashable(value) == IF value.tag = "list" THEN [tag |-> "tuple", v |-> value.v] ELSE value

\* the builtin repr, a key function a user may configure instead
repr(value) == [tag |-> "repr", v |-> value]

KeyFuncs == {"to_hashable", "repr"}

\* self.key_func(value) with the key function bound by init_cache
ApplyKeyFunc(key_func, value) ==
    IF key_func = "to_hashable" THEN to_hashable(value) ELSE repr(value)

\* a link of the circular doubly linked list: [PREV, NEXT, KEY, RESULT];
\* links live in a heap (a sequence) and are named by their position in it
Link(prev, next, key, result) == [PREV |-> prev, NEXT |-> next, KEY |-> key, RESULT |-> result]

EmptyDict == [k \in {} |-> 0]

\* Cache.__init__: root[:] = [root, root, None, None]
Cache_init ==
    [has_init |-> FALSE,
     cache |-> FALSE,
     cache_dict |-> EmptyDict,
     key_func |-> "None",
     max_size |-> Num(0),
     hits |-> 0,
     misses |-> 0,
     full |-> FALSE,
     root |-> 1,
     links |-> << Link(1, 1, None, None) >>]

\* init_cache without the test of has_init
init_cache_Rebind(self, obj) ==
    [has_init |-> TRUE,
     cache |-> TRUE,
     cache_dict |-> EmptyDict,
     key_func |-> obj.key_func,
     max_size |-> obj.cache_size,
     hits |-> 0,
     misses |-> 0,
     full |-> FALSE,
     root |-> 1,
     links |-> << Link(1, 1, None, None) >>]

init_cache(self, obj) ==
    IF self.has_init THEN self
    ELSE [has_init |-> TRUE,
          cache |-> TRUE,
          cache_dict |-> EmptyDict,
          key_func |-> obj.key_func,
          max_size |-> obj.cache_size,
          hits |-> 0,
          misses |-> 0,
          full |-> FALSE,
          root |-> 1,
          links |-> << Link(1, 1, None, None) >>]

clear_cache(self) == [self EXCEPT !.cache_dict = EmptyDict]

\* the arguments of one call of the wrapped search
Args(pseudo_label, y, x, max_revision_num, require_more_revision) ==
    [pseudo_label |-> pseudo_label, y |-> y, x |-> x,
     max_revision_num |-> max_revision_num,
     require_more_revision |-> require_more_revision]

\* self.func(obj, *args)
func(obj, args) ==
    _abduce_by_search(obj, args.pseudo_label, args.y, args.x,
                      args.max_revision_num, args.require_more_revision)

\* CacheKey with the context kept in the key
CacheKey_WithContext(key_func, args) ==
    [pseudo_label |-> ApplyKeyFunc(key_func, List(args.pseudo_label)),
     y |-> ApplyKeyFunc(key_func, args.y),
     res_args |-> <<args.x, args.max_revision_num, args.require_more_revision>>]

\* pred_pseudo_label, y, _x, *res_args = args
\* cache_key = (key_func(pred_pseudo_label), key_func(y), *res_args)
CacheKey(key_func, args) ==
    [pseudo_label |-> ApplyKeyFunc(key_func, List(args.pseudo_label)),
     y |-> ApplyKeyFunc(key_func, args.y),
     res_args |-> <<args.max_revision_num, args.require_more_revision>>]

\* MoveToFront that counts the hit and leaves the list as it is
MoveToFront_NoMove(self, link) == [self EXCEPT !.hits = self.hits + 1]

\* MoveToFront that counts the hit as a miss
MoveToFront_CountsMiss(self, link) ==
    LET link_prev == self.links[link].PREV
        link_next == self.links[link].NEXT
        l1 == [self.links EXCEPT ![link_prev].NEXT = link_next]
        l2 == [l1 EXCEPT ![link_next].PREV = link_prev]
        last == l2[self.root].PREV
        l3 == [l2 EXCEPT ![last].NEXT = link]
        l4 == [l3 EXCEPT ![self.root].PREV = link]
        l5 == [l4 EXCEPT ![link].PREV = last]
        l6 == [l5 EXCEPT ![link].NEXT = self.root]
    IN  [self EXCEPT !.links = l6, !.misses = self.misses + 1]

\* the hit branch: unlink the link and put it in front of the root
MoveToFront(self, link) ==
    LET link_prev == self.links[link].PREV
        link_next == self.links[link].NEXT
        l1 == [self.links EXCEPT ![link_prev].NEXT = link_next]
        l2 == [l1 EXCEPT ![link_next].PREV = link_prev]
        last == l2[self.root].PREV
        l3 == [l2 EXCEPT ![last].NEXT = link]
        l4 == [l3 EXCEPT ![self.root].PREV = link]
        l5 == [l4 EXCEPT ![link].PREV = last]
        l6 == [l5 EXCEPT ![link].NEXT = self.root]
    IN  [self EXCEPT !.links = l6, !.hits = self.hits + 1]

\* the full branch: the old root takes the new entry, the oldest link becomes
\* the root, then the dictionary is updated; del raises KeyError on a key
\* that is not in the dictionary
ReuseRoot(self, cache_key, result) ==
    LET oldroot == self.root
        l1 == [self.links EXCEPT ![oldroot].KEY = cache_key]
        l2 == [l1 EXCEPT ![oldroot].RESULT = result]
        newroot == l2[oldroot].NEXT
        oldkey == l2[newroot].KEY
        l3 == [l2 EXCEPT ![newroot].KEY = None, ![newroot].RESULT = None]
        moved == [self EXCEPT !.links = l3, !.root = newroot]
    IN  IF oldkey \notin DOMAIN self.cache_dict
        THEN [self |-> moved, raised |-> "KeyError", slot |-> oldroot, evicted |-> None]
        ELSE [self |-> [moved EXCEPT !.cache_dict =
                          [k \in (DOMAIN self.cache_dict \ {oldkey}) \cup {cache_key} |->
                              IF k = cache_key THEN oldroot ELSE self.cache_dict[k]]],
              raised |-> "", slot |-> oldroot, evicted |-> oldkey]

\* NewLink that does not make the new link the root's PREV
NewLink_NoBackLink(self, cache_key, result) ==
    LET last == self.links[self.root].PREV
        link == Len(self.links) + 1
        l1 == Append(self.links, Link(last, self.root, cache_key, result))
        l2 == [l1 EXCEPT ![last].NEXT = link]
        dict == [k \in DOMAIN self.cache_dict \cup {cache_key} |->
                    IF k = cache_key THEN link ELSE self.cache_dict[k]]
    IN  [self |-> [self EXCEPT !.links = l2, !.cache_dict = dict,
                               !.full = IF IsNumeric(self.max_size)
                                        THEN Cardinality(DOMAIN dict) >= self.max_size.v
                                        ELSE self.full],
         raised |-> "", slot |-> link, evicted |-> None]

\* the else branch: a new link in front of the root
NewLink(self, cache_key, result) ==
    LET last == self.links[self.root].PREV
        link == Len(self.links) + 1
        l1 == Append(self.links, Link(last, self.root, cache_key, result))
        l2 == [l1 EXCEPT ![last].NEXT = link]
        l3 == [l2 EXCEPT ![self.root].PREV = link]
        dict == [k \in DOMAIN self.cache_dict \cup {cache_key} |->
                    IF k = cache_key THEN link ELSE self.cache_dict[k]]
    IN  [self |-> [self EXCEPT !.links = l3, !.cache_dict = dict,
                               !.full = IF IsNumeric(self.max_size)
                                        THEN Cardinality(DOMAIN dict) >= self.max_size.v
                                        ELSE self.full],
         raised |-> "", slot |-> link, evicted |-> None]

\* Cache.get_from_dict.  The answer tells what the call did: the cache after
\* it, the outcome, whether it was a hit, whether self.func was invoked, the
\* link that was read (hit) or written (miss), 0 if none, and the key that
\* was deleted from the dictionary, None if none.
get_from_dict(self, obj, args) ==
    LET cache_key == CacheKey(self.key_func, args)
    IN  IF cache_key \in DOMAIN self.cache_dict
        THEN LET link == self.cache_dict[cache_key]
             IN  [self |-> MoveToFront(self, link),
                  out |-> Return(self.links[link].RESULT),
                  hit |-> TRUE, computed |-> FALSE, slot |-> link, evicted |-> None]
        ELSE LET counted == [self EXCEPT !.misses = self.misses + 1]
                 result == func(obj, args)
             IN  IF result.raised /= ""
                 THEN [self |-> counted, out |-> result,
                       hit |-> FALSE, computed |-> TRUE, slot |-> 0, evicted |-> None]
                 ELSE LET stored == IF counted.full
                                    THEN ReuseRoot(counted, cache_key, result)
                                    ELSE NewLink(counted, cache_key, result)
                      IN  [self |-> stored.self,
                           out |-> IF stored.raised /= "" THEN Raise(stored.raised) ELSE result,
                           hit |-> FALSE, computed |-> TRUE, slot |-> stored.slot,
                           evicted |-> stored.evicted]

\* wrapper that goes through the cache whatever obj.use_cache says
wrapper_AlwaysCached(cache_instance, obj, args) ==
    get_from_dict(init_cache(cache_instance, obj), obj, args)

\* abl_cache().decorator(func).wrapper(obj, *args) on the decorator's one
\* cache_instance
wrapper(cache_instance, obj, args) ==
    IF obj.use_cache
    THEN get_from_dict(init_cache(cache_instance, obj), obj, args)
    ELSE [self |-> cache_instance, out |-> func(obj, args),
          hit |-> FALSE, computed |-> TRUE, slot |-> 0, evicted |-> None]

(* ------------------------------- state -------------------------------- *)
VARIABLES
    kb,              \* the knowledge-base instances, by instance number
    cache_instance,  \* the Cache created by the decorator of _abduce_by_search
    written_by,      \* history: for each link, the call that wrote its entry
    touched,         \* history: the keys looked up, least recently used first
    inputs,          \* the argument tuples the callers use
    last,            \* the last operation and what it did
    heap,            \* the list objects of the running searches, by object
    frames           \* the local variables of each running search call

vars == <<kb, cache_instance, written_by, touched, inputs, last, heap, frames>>

LabelLists == {<<0, 1>>, <<1, 0>>}
Labels == {0, 1, 2}
Tolerances == {0, 1}
Contexts == {0, 1}
CacheSizes == {Num(0), Num(1), Num(2), None}

SeqsUpTo(n) == UNION {[1..m -> Labels] : m \in 0..n}

Targets == {Num(n) : n \in 0..(MaxLen + 1)} \cup {Str(1), None}

\* every argument tuple within the bounds
SearchArgs ==
    {Args(pl, y, x, mr, er) :
        pl \in SeqsUpTo(MaxLen), y \in Targets, x \in Contexts,
        mr \in 0..MaxRev, er \in 0..MaxExtra}

\* the calls made on a cached search: one tuple and the tuples that differ
\* from it in exactly one argument
BaseArgs == Args(<<0, 0>>, Num(1), 0, 1, 0)

CallArgs ==
    {BaseArgs,
     [BaseArgs EXCEPT !.pseudo_label = <<0, 1>>],
     [BaseArgs EXCEPT !.y = Num(2)],
     [BaseArgs EXCEPT !.x = 1],
     [BaseArgs EXCEPT !.max_revision_num = MaxRev],
     [BaseArgs EXCEPT !.require_more_revision = 1]}

\* instances as the constructor leaves them
SearchKBs ==
    {KBBase_init(labels, max_err, FALSE, "to_hashable", None, oracle) :
        labels \in LabelLists, max_err \in Tolerances, oracle \in Oracles}

CachedKBs ==
    {KBBase_init(<<0, 1>>, 0, use_cache, key_func, cache_size, oracle) :
        use_cache \in BOOLEAN, key_func \in KeyFuncs, cache_size \in CacheSizes,
        oracle \in {"sum", "even", "sumctx"}}

\* cached instances that differ in oracle, key function and capacity
SharingKBs ==
    {KBBase_init(<<0, 1>>, 0, TRUE, "to_hashable", Num(1), oracle) : oracle \in {"sum", "even"}}
    \cup {KBBase_init(<<0, 1>>, 0, TRUE, "repr", Num(2), oracle) : oracle \in {"sum", "even"}}

\* a shorter list of calls: the same key twice and another key
FewArgs ==
    {BaseArgs, [BaseArgs EXCEPT !.x = 1], [BaseArgs EXCEPT !.y = Num(2)]}

NoWriter == [obj |-> 0, args |-> BaseArgs]

NoCall == [op |-> "none", obj |-> 0, args |-> BaseArgs, out |-> Raise("none"),
           hit |-> FALSE, computed |-> FALSE, slot |-> 0, evicted |-> None]

(* ------------------ the search, one statement at a time ---------------- *)
\* Two calls of _abduce_by_search run in threads that are switched between
\* statements.  A list is an object of the heap; a variable holds its name.
Calls == {1, 2}

\* the list object that both callers pass as pseudo_label
Input == <<0, 0>>

\* the local variables of one call; candidate and candidates hold objects
IdleFrame ==
    [pc |-> "idle", args |-> BaseArgs, loop |-> "first",
     revision_num |-> 0, min_revision_num |-> -1,
     todo |-> <<>>, w |-> 0, candidate |-> Input, copies |-> 0,
     candidates |-> <<>>, reasoning_results |-> <<>>, raised |-> ""]

NoSearch ==
    /\ heap = <<>>
    /\ frames = <<>>

\* pseudo_label.copy() that hands back the list it was given
copy_Alias(objects, ref, new) == [obj |-> ref, heap |-> objects]

\* pseudo_label.copy(): a new list object, new, with the items of ref
copy(objects, ref, new) ==
    [obj |-> new,
     heap |-> [o \in DOMAIN objects \cup {new} |->
                  IF o = new THEN objects[ref] ELSE objects[o]]]

\* the iterations of one level, in order: for every index set of
\* combinations(range(len(pseudo_label)), revision_num), every tuple c of
\* product(pseudo_label_list, repeat=len(revision_idx))
LevelWork(obj, n, revision_num) ==
    LET revision_idx_list == combinations(n, revision_num)
        abduce_c == product(obj.pseudo_label_list, revision_num)
    IN  Flatten([j \in 1..Len(revision_idx_list) |->
                   [i \in 1..Len(abduce_c) |->
                       [revision_idx |-> revision_idx_list[j], c |-> abduce_c[i]]]])

\* the head of the first for-loop at revision_num; past the last level the
\* loop ends without min_revision_num and the second loop's range reads it
EnterFirst(obj, objects, f, revision_num) ==
    IF revision_num > Len(objects[Input])
    THEN [f EXCEPT !.pc = "done", !.raised = "UnboundLocalError",
                   !.candidates = <<>>, !.reasoning_results = <<>>]
    ELSE [f EXCEPT !.pc = "copy", !.loop = "first", !.revision_num = revision_num,
                   !.todo = LevelWork(obj, Len(objects[Input]), revision_num)]

RECURSIVE EnterSecond(_, _, _, _)
\* the head of the second for-loop at revision_num; a level that has no
\* index set runs no iteration
EnterSecond(obj, objects, f, revision_num) ==
    IF revision_num > f.min_revision_num + f.args.require_more_revision
    THEN [f EXCEPT !.pc = "done"]
    ELSE IF revision_num > f.args.max_revision_num
    THEN [f EXCEPT !.pc = "done"]
    ELSE LET work == LevelWork(obj, Len(objects[Input]), revision_num)
         IN  IF work = <<>>
             THEN EnterSecond(obj, objects, f, revision_num + 1)
             ELSE [f EXCEPT !.pc = "copy", !.loop = "second",
                            !.revision_num = revision_num, !.todo = work]

\* after the last iteration of a level: what the enclosing loop does next
LevelDone(obj, objects, f) ==
    IF f.loop = "second"
    THEN EnterSecond(obj, objects, f, f.revision_num + 1)
    ELSE IF Len(f.candidates) > 0
    THEN EnterSecond(obj, objects,
                     [f EXCEPT !.min_revision_num = f.revision_num],
                     f.revision_num + 1)
    ELSE IF f.revision_num >= f.args.max_revision_num
    THEN [f EXCEPT !.pc = "done"]
    ELSE EnterFirst(obj, objects, f, f.revision_num + 1)

\* the call is made and reaches its first iteration
Begin(p) ==
    /\ frames[p].pc = "idle"
    /\ \E args \in inputs :
          frames' = [frames EXCEPT ![p] =
                        EnterFirst(kb[1], heap, [IdleFrame EXCEPT !.args = args], 0)]
    /\ UNCHANGED <<kb, cache_instance, written_by, touched, inputs, last, heap>>

\* candidate = pseudo_label.copy()
Copy(p) ==
    /\ frames[p].pc = "copy"
    /\ \E made \in {copy(heap, Input, <<p, frames[p].copies + 1>>)} :
          /\ heap' = made.heap
          /\ frames' = [frames EXCEPT ![p] =
                [frames[p] EXCEPT
                    !.candidate = made.obj,
                    !.copies = frames[p].copies + 1,
                    !.w = 1,
                    !.pc = IF Head(frames[p].todo).revision_idx = <<>>
                           THEN "call" ELSE "write"]]
    /\ UNCHANGED <<kb, cache_instance, written_by, touched, inputs, last>>

\* candidate[idx] = c[i], for one i
Write(p) ==
    /\ frames[p].pc = "write"
    /\ \E f \in {frames[p]} :
          /\ heap' = [heap EXCEPT ![f.candidate][Head(f.todo).revision_idx[f.w] + 1] =
                                        Head(f.todo).c[f.w]]
          /\ frames' = [frames EXCEPT ![p] =
                [f EXCEPT !.w = f.w + 1,
                          !.pc = IF f.w = Len(Head(f.todo).revision_idx)
                                 THEN "call" ELSE "write"]]
    /\ UNCHANGED <<kb, cache_instance, written_by, touched, inputs, last>>

\* reasoning_result = self.logic_forward(candidate, *xs); the equality test
\* and the two appends; then the next iteration, level or loop
CallOracle(p) ==
    /\ frames[p].pc = "call"
    /\ \E f \in {frames[p]} :
       \E reasoning_result \in {logic_forward(kb[1].oracle, heap[f.candidate],
                                              ContextArgs(kb[1], f.args.x))} :
       \E kept \in {IF _check_equal(kb[1], reasoning_result, f.args.y)
                    THEN [f EXCEPT !.candidates = Append(f.candidates, f.candidate),
                                   !.reasoning_results =
                                        Append(f.reasoning_results, reasoning_result)]
                    ELSE f} :
          frames' = [frames EXCEPT ![p] =
                        IF Len(f.todo) > 1
                        THEN [kept EXCEPT !.todo = Tail(f.todo), !.pc = "copy"]
                        ELSE LevelDone(kb[1], heap, kept)]
    /\ UNCHANGED <<kb, cache_instance, written_by, touched, inputs, last, heap>>

InitCache ==
    /\ cache_instance = Cache_init
    /\ written_by = << NoWriter >>
    /\ touched = <<>>
    /\ last = NoCall

\* one instance
Init ==
    /\ kb \in [{1} -> CachedKBs]
    /\ inputs = CallArgs
    /\ InitCache
    /\ NoSearch

\* two instances of one class: the decorator ran once, in the class body, so
\* both call the wrapper of the same cache_instance
InitShared ==
    /\ kb \in [{1, 2} -> SharingKBs]
    /\ inputs = FewArgs
    /\ InitCache
    /\ NoSearch

\* one instance whose cache is also cleared
InitClear ==
    /\ kb \in [{1} -> CachedKBs]
    /\ inputs = FewArgs
    /\ InitCache
    /\ NoSearch

\* one instance whose owner also assigns use_cache, key_func and cache_size
\* after construction
ConfigKBs ==
    {KBBase_init(<<0, 1>>, 0, use_cache, "to_hashable", cache_size, "sum") :
        use_cache \in BOOLEAN, cache_size \in {Num(1), None}}

InitConfig ==
    /\ kb \in [{1} -> ConfigKBs]
    /\ inputs = FewArgs
    /\ InitCache
    /\ NoSearch

\* one uncached instance and one argument tuple: the search as a function
InitSearch ==
    /\ kb \in [{1} -> SearchKBs]
    /\ inputs \in {{a} : a \in SearchArgs}
    /\ InitCache
    /\ NoSearch

(* ------------------------------ actions ------------------------------- *)
\* the entry written into link slot is recorded with its writer
Record(did, obj, args) ==
    LET base == IF Len(did.self.links) < Len(written_by) THEN << NoWriter >> ELSE written_by
    IN  IF did.slot = 0 \/ did.hit THEN base
        ELSE IF did.slot > Len(base) THEN Append(base, [obj |-> obj, args |-> args])
        ELSE [base EXCEPT ![did.slot] = [obj |-> obj, args |-> args]]

\* a lookup that returned makes its key the most recently used one
Touch(did, obj, args) ==
    IF obj.use_cache /\ did.out.raised = ""
    THEN LET key == CacheKey(did.self.key_func, args)
         IN  Append(SelectSeq(touched, LAMBDA k : k /= key), key)
    ELSE touched

\* KBBase.abduce_candidates(pseudo_label, y, x, max_revision_num,
\* require_more_revision) on instance obj
abduce_candidates(obj, args) ==
    \E did \in {wrapper(cache_instance, kb[obj], args)} :
        /\ kb[obj].use_cache => cache_instance.hits + cache_instance.misses < MaxCalls
        /\ cache_instance' = did.self
        /\ written_by' = Record(did, obj, args)
        /\ touched' = Touch(did, kb[obj], args)
        /\ last' = [op |-> "abduce_candidates", obj |-> obj, args |-> args, out |-> did.out,
                    hit |-> did.hit, computed |-> did.computed, slot |-> did.slot,
                    evicted |-> did.evicted]
        /\ UNCHANGED <<kb, inputs, heap, frames>>

\* Cache.clear_cache() on the decorator's cache
ClearCache ==
    /\ cache_instance.has_init
    /\ last.op /= "clear_cache"
    /\ cache_instance' = clear_cache(cache_instance)
    /\ last' = [NoCall EXCEPT !.op = "clear_cache"]
    /\ UNCHANGED <<kb, written_by, touched, inputs, heap, frames>>

\* the owner assigns obj.use_cache, the attribute the wrapper reads
SetUseCache(obj, use_cache) ==
    /\ kb[obj].use_cache /= use_cache
    /\ kb' = [kb EXCEPT ![obj].use_cache = use_cache]
    /\ last' = [NoCall EXCEPT !.op = "set_use_cache", !.obj = obj]
    /\ UNCHANGED <<cache_instance, written_by, touched, inputs, heap, frames>>

\* the owner assigns obj.key_func, the attribute init_cache reads
SetKeyFunc(obj, key_func) ==
    /\ kb[obj].key_func /= key_func
    /\ kb' = [kb EXCEPT ![obj].key_func = key_func]
    /\ last' = [NoCall EXCEPT !.op = "set_key_func", !.obj = obj]
    /\ UNCHANGED <<cache_instance, written_by, touched, inputs, heap, frames>>

\* the owner assigns obj.cache_size, the attribute init_cache reads
SetCacheSize(obj, cache_size) ==
    /\ kb[obj].cache_size /= cache_size
    /\ kb' = [kb EXCEPT ![obj].cache_size = cache_size]
    /\ last' = [NoCall EXCEPT !.op = "set_cache_size", !.obj = obj]
    /\ UNCHANGED <<cache_instance, written_by, touched, inputs, heap, frames>>

Next == \E obj \in DOMAIN kb, args \in inputs : abduce_candidates(obj, args)

NextClear == Next \/ ClearCache

NextConfig ==
    \/ Next
    \/ \E obj \in DOMAIN kb, use_cache \in BOOLEAN : SetUseCache(obj, use_cache)
    \/ \E obj \in DOMAIN kb, key_func \in KeyFuncs : SetKeyFunc(obj, key_func)
    \/ \E obj \in DOMAIN kb, cache_size \in CacheSizes : SetCacheSize(obj, cache_size)

Spec == Init /\ [][Next]_vars

SpecShared == InitShared /\ [][Next]_vars

SpecSearch == InitSearch /\ [][Next]_vars

SpecClear == InitClear /\ [][NextClear]_vars

SpecConfig == InitConfig /\ [][NextConfig]_vars

\* two callers search the same list object on one instance whose cache is
\* off, each with its own target and bounds
InterleavedKBs ==
    {KBBase_init(<<0, 1>>, 0, FALSE, "to_hashable", None, oracle) :
        oracle \in {"sum", "even"}}

InitInterleaved ==
    /\ kb \in [{1} -> InterleavedKBs]
    /\ \E pseudo_label \in {<<0, 0>>, <<0, 2>>} :
          /\ inputs = {Args(pseudo_label, y, 0, mr, er) :
                          y \in {Num(1), Num(2)}, mr \in {1, 3}, er \in {0, 1}}
          /\ heap = [o \in {Input} |-> pseudo_label]
    /\ frames = [p \in Calls |-> IdleFrame]
    /\ InitCache

NextInterleaved ==
    \E p \in Calls : Begin(p) \/ Copy(p) \/ Write(p) \/ CallOracle(p)

SpecInterleaved == InitInterleaved /\ [][NextInterleaved]_vars

(* ------------------- the search stated over sets ---------------------- *)
LabelSpace(obj) == {obj.pseudo_label_list[i] : i \in 1..Len(obj.pseudo_label_list)}

\* the original sequence with the positions of S overwritten by f
Revised(pseudo_label, S, f) ==
    [p \in 1..Len(pseudo_label) |-> IF p \in S THEN f[p] ELSE pseudo_label[p]]

\* the oracle agrees with the target on the sequence
Agrees(obj, candidate, args) ==
    _check_equal(obj, logic_forward(obj.oracle, candidate, ContextArgs(obj, args.x)), args.y)

\* some candidate of level k (k positions overwritten with labels) agrees
MatchAtLevel(obj, args, k) ==
    \E S \in SUBSET (1..Len(args.pseudo_label)) :
        /\ Cardinality(S) = k
        /\ \E f \in [S -> LabelSpace(obj)] : Agrees(obj, Revised(args.pseudo_label, S, f), args)

FeasibleLevels(obj, args) == {k \in 0..Len(args.pseudo_label) : MatchAtLevel(obj, args, k)}

\* the smallest feasible level
MinK(obj, args) ==
    CHOOSE k \in 0..Len(args.pseudo_label) :
        /\ MatchAtLevel(obj, args, k)
        /\ \A j \in 0..(k - 1) : ~MatchAtLevel(obj, args, j)

\* the number of positions in which two sequences of one length differ
Distance(a, b) == Cardinality({p \in 1..Len(a) : a[p] /= b[p]})

Min(a, b) == IF a <= b THEN a ELSE b

Called == last.op = "abduce_candidates"

Returned == Called /\ last.out.raised = ""

(* ------------------------------- claims ------------------------------- *)
\* C1: when no candidate of any level 0..max_revisions agrees with the target,
\* the search returns an empty candidate list and an empty result list and
\* does not raise, also for max_revisions above the sequence length.
C1_InfeasibleReturnsEmpty ==
    (Called /\ \A k \in 0..last.args.max_revision_num :
                    k \notin FeasibleLevels(kb[last.obj], last.args))
    => /\ last.out.raised = ""
       /\ last.out.candidates = <<>>
       /\ last.out.reasoning_results = <<>>

\* C2: every returned candidate differs from the original sequence in d
\* positions with min_k <= d <= min(min_k + extra_revisions, max_revisions),
\* min_k being the smallest feasible level; with extra_revisions = 0, d = min_k.
C2_MinimalRevision ==
    Returned =>
        \A i \in 1..Len(last.out.candidates) :
            LET d == Distance(last.out.candidates[i], last.args.pseudo_label)
                min_k == MinK(kb[last.obj], last.args)
            IN  /\ FeasibleLevels(kb[last.obj], last.args) /= {}
                /\ min_k <= d
                /\ d <= Min(min_k + last.args.require_more_revision, last.args.max_revision_num)
                /\ last.args.require_more_revision = 0 => d = min_k

\* a search that found its first match at level 1 or above and returned a
\* candidate of the extra level
C2_Witness ==
    /\ Returned
    /\ last.args.require_more_revision > 0
    /\ \E i \in 1..Len(last.out.candidates) :
          /\ MinK(kb[last.obj], last.args) >= 1
          /\ Distance(last.out.candidates[i], last.args.pseudo_label)
                = MinK(kb[last.obj], last.args) + 1

\* C3: when the unmodified sequence agrees with the target, min_k = 0 and the
\* returned candidates contain the unmodified sequence with its own oracle
\* result; with extra_revisions = 0 that is the whole answer.
C3_UnmodifiedSatisfies ==
    (Called /\ Agrees(kb[last.obj], last.args.pseudo_label, last.args)) =>
        LET own == logic_forward(kb[last.obj].oracle, last.args.pseudo_label,
                                 ContextArgs(kb[last.obj], last.args.x))
        IN  /\ last.out.raised = ""
            /\ MinK(kb[last.obj], last.args) = 0
            /\ \E i \in 1..Len(last.out.candidates) :
                  /\ last.out.candidates[i] = last.args.pseudo_label
                  /\ last.out.reasoning_results[i] = own
            /\ last.args.require_more_revision = 0 =>
                  /\ last.out.candidates = << last.args.pseudo_label >>
                  /\ last.out.reasoning_results = << own >>

\* a non-empty sequence that agrees as it is, searched with no budget at all
C3_Witness ==
    /\ Returned
    /\ Agrees(kb[last.obj], last.args.pseudo_label, last.args)
    /\ Len(last.args.pseudo_label) > 0
    /\ last.args.max_revision_num = 0
    /\ last.args.require_more_revision = 0
    /\ last.out.candidates = << last.args.pseudo_label >>

(* ----------------------- the cache seen from outside ------------------- *)
RECURSIVE Walk(_, _, _)
\* the links from link to the root following NEXT, at most n of them
Walk(self, link, n) ==
    IF link = self.root \/ n = 0 THEN <<>>
    ELSE <<link>> \o Walk(self, self.links[link].NEXT, n - 1)

\* the links of the recency list, the one next to be evicted first
ListLinks(self) == Walk(self, self.links[self.root].NEXT, Len(self.links))

ListKeys(self) == [i \in 1..Len(ListLinks(self)) |-> self.links[ListLinks(self)[i]].KEY]

LastN(seq, n) == SubSeq(seq, Len(seq) - n + 1, Len(seq))

Range(seq) == {seq[i] : i \in 1..Len(seq)}

\* two calls agree on everything the key is said to be made of
SameKeyArgs(a, b) ==
    /\ a.pseudo_label = b.pseudo_label
    /\ a.y = b.y
    /\ a.max_revision_num = b.max_revision_num
    /\ a.require_more_revision = b.require_more_revision

\* the instance with caching switched off
Uncached(obj) == [obj EXCEPT !.use_cache = FALSE]

Cached == Called /\ kb[last.obj].use_cache

\* C4: every call on an instance returns with caching enabled what the same
\* call returns with caching disabled.
C4_CacheTransparent ==
    Called => last.out = wrapper(Cache_init, Uncached(kb[last.obj]), last.args).out

\* a hit, after two or more misses, that answers with a non-empty result
C4_Witness ==
    /\ Cached
    /\ last.hit
    /\ cache_instance.misses >= 2
    /\ Len(last.out.candidates) > 0

\* C5: a lookup on one instance never returns a result stored by another
\* instance, and the cache an instance uses has that instance's key function
\* and capacity.
C5_CachePrivate ==
    /\ (Cached /\ last.hit) => written_by[last.slot].obj = last.obj
    /\ Cached => /\ cache_instance.key_func = kb[last.obj].key_func
                 /\ cache_instance.max_size = kb[last.obj].cache_size

\* C6: with an integer capacity c >= 1 the stored keys are the c most
\* recently looked up keys, kept in the order of their last lookup, and the
\* key an eviction removes is the least recently looked up of the stored keys.
C6_LeastRecentlyUsedEvicted ==
    (cache_instance.has_init /\ IsNumeric(cache_instance.max_size)
        /\ cache_instance.max_size.v >= 1) =>
        LET c == cache_instance.max_size.v
            n == Min(c, Len(touched))
        IN  /\ ListKeys(cache_instance) = LastN(touched, n)
            /\ DOMAIN cache_instance.cache_dict = Range(LastN(touched, n))
            /\ (Cached /\ last.evicted /= None) =>
                  /\ Len(touched) > c
                  /\ last.evicted = touched[Len(touched) - c]

\* the first eviction removes a key that was stored after a key that stays:
\* a hit had refreshed the older key
C6_Witness ==
    /\ Cached
    /\ last.evicted /= None
    /\ cache_instance.hits >= 1
    /\ last.slot = 1
    /\ \E k \in DOMAIN cache_instance.cache_dict :
          /\ cache_instance.cache_dict[k] /= 1
          /\ cache_instance.cache_dict[k] < cache_instance.root

\* C7 as stated: an oracle of the minimal arity (candidate only) has its
\* caching disabled whatever was requested, with a warning, and its calls
\* never use the cache.
C7_MinimalArityDisablesCache ==
    \A obj \in DOMAIN kb :
        kb[obj].num_args = 1 =>
            /\ ~kb[obj].use_cache
            /\ kb[obj].warned
            /\ cache_instance = Cache_init

\* C7 as amended: an oracle of two arguments (candidate and context) has its
\* caching disabled whatever was requested, with a warning when the request
\* was to cache, and its calls never use the cache; an oracle of the minimal
\* arity keeps the requested flag and gets no warning.
C7_ContextArityDisablesCache ==
    \A obj \in DOMAIN kb :
        /\ kb[obj].num_args = 2 =>
              /\ ~kb[obj].use_cache
              /\ kb[obj].warned <=> kb[obj].requested_use_cache
              /\ cache_instance = Cache_init
              /\ (Called /\ last.obj = obj) =>
                    /\ ~last.hit
                    /\ last.computed
                    /\ last.slot = 0
                    /\ last.out = func(kb[obj], last.args)
        /\ kb[obj].num_args /= 2 =>
              /\ kb[obj].use_cache <=> kb[obj].requested_use_cache
              /\ ~kb[obj].warned

\* an instance built with a two-argument oracle and caching requested has
\* answered a call
C7_Witness ==
    /\ Called
    /\ kb[last.obj].num_args = 2
    /\ kb[last.obj].requested_use_cache
    /\ kb[last.obj].warned
    /\ last.out.raised = ""

\* C8: a lookup on an enabled cache, whether or not the cache was cleared
\* before, completes whenever the wrapped search completes.
C8_CacheNeverRaises ==
    (Cached /\ func(kb[last.obj], last.args).raised = "") => last.out.raised = ""

\* C9: the arguments that reach a stored entry are those that agree with the
\* call that stored it on pseudo-label, target, max_revisions and
\* extra_revisions, whatever their context; a hit returns the stored result
\* without running the search, a miss runs it and stores its result.
C9_KeyExcludesContext ==
    cache_instance.has_init =>
        /\ \A k \in DOMAIN cache_instance.cache_dict : \A a \in inputs :
              (CacheKey(cache_instance.key_func, a) = k)
                 <=> SameKeyArgs(a, written_by[cache_instance.cache_dict[k]].args)
        /\ (Cached /\ last.hit) =>
              /\ ~last.computed
              /\ SameKeyArgs(last.args, written_by[last.slot].args)
              /\ last.out = cache_instance.links[last.slot].RESULT
        /\ (Cached /\ ~last.hit) =>
              /\ last.computed
              /\ last.out.raised = "" =>
                    /\ written_by[last.slot].args = last.args
                    /\ cache_instance.links[last.slot].RESULT = last.out
                    /\ \E k \in DOMAIN cache_instance.cache_dict :
                          cache_instance.cache_dict[k] = last.slot

\* a hit by a call whose context differs from the context of the call that
\* stored the entry
C9_Witness ==
    /\ Cached
    /\ last.hit
    /\ last.args.x /= written_by[last.slot].args.x

\* a step of a lookup that is a hit
HitStep ==
    /\ last'.op = "abduce_candidates"
    /\ last'.hit
    /\ cache_instance' /= cache_instance

\* C10: a hit returns the stored result without running the search, makes
\* the entry the most recently used one, adds one to hits and leaves the
\* stored keys, the stored results, the capacity and misses as they were.
C10_HitFrame ==
    [][HitStep =>
          LET link == last'.slot
              before == ListLinks(cache_instance)
          IN  /\ ~last'.computed
              /\ last'.out = cache_instance.links[link].RESULT
              /\ cache_instance'.hits = cache_instance.hits + 1
              /\ cache_instance'.misses = cache_instance.misses
              /\ cache_instance'.max_size = cache_instance.max_size
              /\ cache_instance'.cache_dict = cache_instance.cache_dict
              /\ cache_instance'.root = cache_instance.root
              /\ Len(cache_instance'.links) = Len(cache_instance.links)
              /\ \A l \in 1..Len(cache_instance.links) :
                    /\ cache_instance'.links[l].KEY = cache_instance.links[l].KEY
                    /\ cache_instance'.links[l].RESULT = cache_instance.links[l].RESULT
              /\ ListLinks(cache_instance') =
                    Append(SelectSeq(before, LAMBDA l : l /= link), link)
    ]_vars

\* the entry stored first was hit and now stands last in the list, behind
\* an entry stored after it
C10_Witness ==
    /\ Cached
    /\ last.hit
    /\ last.slot = 2
    /\ cache_instance.root = 1
    /\ cache_instance.links[1].PREV = 2
    /\ Cardinality(DOMAIN cache_instance.cache_dict) >= 2

(* ------------------------ bypass and lazy binding ---------------------- *)
\* a step of a call on an instance whose caching is disabled
BypassStep ==
    /\ last'.op = "abduce_candidates"
    /\ ~kb[last'.obj].use_cache

\* C11: a call on an instance with caching disabled runs the wrapped search
\* itself and answers with its outcome, and leaves the cache as it was: not
\* initialised if it was not, no entry inserted or moved, hits and misses
\* unchanged.
C11_DisabledBypasses ==
    [][BypassStep =>
          /\ last'.computed
          /\ ~last'.hit
          /\ last'.slot = 0
          /\ last'.out = func(kb[last'.obj], last'.args)
          /\ cache_instance'.has_init = cache_instance.has_init
          /\ cache_instance'.hits = cache_instance.hits
          /\ cache_instance'.misses = cache_instance.misses
          /\ cache_instance'.cache_dict = cache_instance.cache_dict
          /\ cache_instance'.links = cache_instance.links
          /\ cache_instance' = cache_instance
    ]_vars

\* caching was switched off after a result was stored, and the call with the
\* arguments of the stored entry ran the search again
C11_Witness ==
    /\ Called
    /\ ~kb[last.obj].use_cache
    /\ last.computed
    /\ cache_instance.has_init
    /\ CacheKey(cache_instance.key_func, last.args) \in DOMAIN cache_instance.cache_dict

\* a step of a call on an instance whose caching is enabled
LookupStep ==
    /\ last'.op = "abduce_candidates"
    /\ kb[last'.obj].use_cache

\* C12: the first cached call binds the owner's key function and capacity;
\* every later call, whatever the owner's key function and capacity are by
\* then, uses the values bound first and keeps the stored entries (but the one
\* it evicts), their recency order, the full flag and the counters, which it
\* advances by one lookup; assigning the owner's attributes does not touch
\* the cache.
C12_LazyBindingIdempotent ==
    [][/\ last'.op /= "abduce_candidates" => cache_instance' = cache_instance
       /\ LookupStep =>
            /\ cache_instance'.has_init
            /\ ~cache_instance.has_init =>
                  /\ cache_instance'.key_func = kb[last'.obj].key_func
                  /\ cache_instance'.max_size = kb[last'.obj].cache_size
            /\ cache_instance.has_init =>
                  LET key == CacheKey(cache_instance.key_func, last'.args)
                      gone == last'.evicted
                  IN  /\ cache_instance'.key_func = cache_instance.key_func
                      /\ cache_instance'.max_size = cache_instance.max_size
                      /\ cache_instance'.hits >= cache_instance.hits
                      /\ cache_instance'.misses >= cache_instance.misses
                      /\ cache_instance'.hits + cache_instance'.misses
                            = cache_instance.hits + cache_instance.misses + 1
                      /\ cache_instance.full => cache_instance'.full
                      /\ last'.hit <=> key \in DOMAIN cache_instance.cache_dict
                      /\ last'.out.raised = "" => key \in DOMAIN cache_instance'.cache_dict
                      /\ \A k \in DOMAIN cache_instance.cache_dict :
                            (k /= key /\ k /= gone) =>
                               /\ k \in DOMAIN cache_instance'.cache_dict
                               /\ cache_instance'.links[cache_instance'.cache_dict[k]].RESULT
                                     = cache_instance.links[cache_instance.cache_dict[k]].RESULT
                      /\ SelectSeq(ListKeys(cache_instance'), LAMBDA k : k /= key /\ k /= gone)
                            = SelectSeq(ListKeys(cache_instance), LAMBDA k : k /= key /\ k /= gone)
    ]_vars

\* a hit on an entry stored before the owner's key function and capacity
\* were both changed
C12_Witness ==
    /\ Cached
    /\ last.hit
    /\ cache_instance.key_func /= kb[last.obj].key_func
    /\ cache_instance.max_size /= kb[last.obj].cache_size
    /\ cache_instance.misses >= 2

(* ------------------------------ capacity ------------------------------ *)
\* C13: with an integer capacity c, 0 and 1 included, the cache never holds
\* more than c entries, and after a miss that evicted it holds exactly c.
C13_BoundedCapacity ==
    (cache_instance.has_init /\ IsNumeric(cache_instance.max_size)) =>
        LET c == cache_instance.max_size.v
            n == Cardinality(DOMAIN cache_instance.cache_dict)
        IN  /\ n <= c
            /\ Len(ListLinks(cache_instance)) <= c
            /\ (Cached /\ last.evicted /= None) => n = c

\* C14: with a capacity that is not an integer nothing is evicted: the keys
\* looked up so far are the stored keys, there are as many entries as misses,
\* and no lookup fails.
C14_UnboundedNeverEvicts ==
    (cache_instance.has_init /\ ~IsNumeric(cache_instance.max_size)) =>
        /\ ~cache_instance.full
        /\ Cached => (last.evicted = None /\ last.out.raised = "")
        /\ DOMAIN cache_instance.cache_dict = Range(touched)
        /\ Range(ListKeys(cache_instance)) = Range(touched)
        /\ Cardinality(DOMAIN cache_instance.cache_dict) = cache_instance.misses

(* ----------------------------- Scenario B ------------------------------ *)
\* label space [0, 1], oracle sum, sequence [0, 0], target 1, max_revisions 2,
\* extra_revisions 1
ScenarioB ==
    /\ Called
    /\ kb[last.obj].oracle = "sum"
    /\ kb[last.obj].pseudo_label_list = <<0, 1>>
    /\ kb[last.obj].max_err = 0
    /\ last.args.pseudo_label = <<0, 0>>
    /\ last.args.y = Num(1)
    /\ last.args.max_revision_num = 2
    /\ last.args.require_more_revision = 1

\* C15 as stated: in Scenario B level 1 yields [1,0] and [0,1], min_k is 1,
\* level 2 adds no entry and the returned candidates are exactly [1,0], [0,1].
C15_ScenarioB_NoAddition ==
    ScenarioB =>
        /\ last.out.raised = ""
        /\ MinK(kb[last.obj], last.args) = 1
        /\ _revision(kb[last.obj], 1, <<0, 0>>, last.args.y, last.args.x).candidates
              = << <<1, 0>>, <<0, 1>> >>
        /\ _revision(kb[last.obj], 2, <<0, 0>>, last.args.y, last.args.x).candidates = <<>>
        /\ last.out.candidates = << <<1, 0>>, <<0, 1>> >>

\* C15 as amended: in Scenario B level 1 yields [1,0] and [0,1], min_k is 1,
\* level 2 finds [0,1] and [1,0] again through the index set (0, 1), and the
\* returned candidates are [1,0], [0,1], [0,1], [1,0], each with result 1:
\* as a set, {[1,0], [0,1]}.
C15_ScenarioB_Duplicates ==
    ScenarioB =>
        /\ last.out.raised = ""
        /\ MinK(kb[last.obj], last.args) = 1
        /\ _revision(kb[last.obj], 1, <<0, 0>>, last.args.y, last.args.x).candidates
              = << <<1, 0>>, <<0, 1>> >>
        /\ _revision(kb[last.obj], 2, <<0, 0>>, last.args.y, last.args.x).candidates
              = << <<0, 1>>, <<1, 0>> >>
        /\ last.out.candidates = << <<1, 0>>, <<0, 1>>, <<0, 1>>, <<1, 0>> >>
        /\ last.out.reasoning_results = << Num(1), Num(1), Num(1), Num(1) >>
        /\ Range(last.out.candidates) = { <<1, 0>>, <<0, 1>> }

\* the call of Scenario B has returned four candidates
C15_Witness ==
    /\ ScenarioB
    /\ Returned
    /\ Len(last.out.candidates) = 4

(* --------------------------- Equality Checker -------------------------- *)
\* the oracle's output on a sequence, for the instance and context of a call
OracleOn(obj, candidate, args) ==
    logic_forward(obj.oracle, candidate, ContextArgs(obj, args.x))

\* matches(result, target) as the claim defines it
Matches(result, target, max_err) ==
    CASE result = None -> FALSE
      [] result /= None /\ IsNumeric(result) /\ IsNumeric(target) ->
            /\ result.v - target.v <= max_err
            /\ target.v - result.v <= max_err
      [] OTHER -> result = target

\* C16: the Equality Checker is false on a result of None, whatever the
\* target, None included; on two numbers it is true iff they differ by at most
\* max_err; otherwise it is true iff result and target are equal.  A search
\* with max_revisions = 0 returns the unmodified sequence exactly when the
\* checker says so, and returns empty lists, without an error, otherwise.
C16_EqualityChecker ==
    Called =>
        LET obj == kb[last.obj]
            target == last.args.y
        IN  /\ \A candidate \in [1..Len(last.args.pseudo_label) -> Labels] :
                  LET result == OracleOn(obj, candidate, last.args)
                  IN  /\ _check_equal(obj, result, target)
                         <=> Matches(result, target, obj.max_err)
                      /\ result = None => ~_check_equal(obj, result, target)
            /\ last.args.max_revision_num = 0 =>
                  LET own == OracleOn(obj, last.args.pseudo_label, last.args)
                  IN  /\ last.out.raised = ""
                      /\ Matches(own, target, obj.max_err)
                            => last.out.candidates[1] = last.args.pseudo_label
                      /\ ~Matches(own, target, obj.max_err)
                            => (last.out.candidates = <<>> /\ last.out.reasoning_results = <<>>)

\* the oracle returned None on the unmodified sequence, the target is None,
\* and the search with no budget returned nothing
C16_Witness ==
    /\ Returned
    /\ last.args.y = None
    /\ last.args.max_revision_num = 0
    /\ OracleOn(kb[last.obj], last.args.pseudo_label, last.args) = None
    /\ last.out.candidates = <<>>

(* ------------------------ completeness, soundness ---------------------- *)
\* the positions in which a candidate differs from the sequence searched
Changed(candidate, pseudo_label) ==
    {p \in 1..Len(pseudo_label) : candidate[p] /= pseudo_label[p]}

\* C17: when a level within the budget has a match, the search returns a
\* non-empty answer, and every sequence obtained by overwriting exactly min_k
\* positions with labels that agrees with the target is among the returned
\* candidates, paired with its oracle result, whatever index set it comes from.
C17_CompleteAtMinimalLevel ==
    Called =>
        \A obj \in {kb[last.obj]} : \A levels \in {FeasibleLevels(kb[last.obj], last.args)} :
            levels /= {} =>
               \A min_k \in {MinK(obj, last.args)} :
                  min_k <= last.args.max_revision_num =>
                     /\ last.out.raised = ""
                     /\ last.out.candidates /= <<>>
                     /\ \A S \in SUBSET (1..Len(last.args.pseudo_label)) :
                           Cardinality(S) = min_k =>
                              \A f \in [S -> LabelSpace(obj)] :
                                 \A candidate \in {Revised(last.args.pseudo_label, S, f)} :
                                    Agrees(obj, candidate, last.args) =>
                                       \E i \in 1..Len(last.out.candidates) :
                                          /\ last.out.candidates[i] = candidate
                                          /\ last.out.reasoning_results[i]
                                                = OracleOn(obj, candidate, last.args)

\* the minimal level is 1 or more and the answer holds matches of two
\* different index sets of that level
C17_Witness ==
    /\ Returned
    /\ FeasibleLevels(kb[last.obj], last.args) /= {}
    /\ MinK(kb[last.obj], last.args) >= 1
    /\ \E i, j \in 1..Len(last.out.candidates) :
          /\ Changed(last.out.candidates[i], last.args.pseudo_label)
                /= Changed(last.out.candidates[j], last.args.pseudo_label)
          /\ Cardinality(Changed(last.out.candidates[i], last.args.pseudo_label))
                = MinK(kb[last.obj], last.args)
          /\ Cardinality(Changed(last.out.candidates[j], last.args.pseudo_label))
                = MinK(kb[last.obj], last.args)

\* C18: the two returned lists have one length; the i-th result is the
\* oracle's output on the i-th candidate, is not None and matches the target
\* under the Equality Checker; every candidate is as long as the sequence
\* searched.
C18_SoundAndPaired ==
    Returned =>
        LET obj == kb[last.obj]
        IN  /\ Len(last.out.candidates) = Len(last.out.reasoning_results)
            /\ \A i \in 1..Len(last.out.candidates) :
                  /\ last.out.reasoning_results[i]
                        = OracleOn(obj, last.out.candidates[i], last.args)
                  /\ last.out.reasoning_results[i] /= None
                  /\ _check_equal(obj, last.out.reasoning_results[i], last.args.y)
                  /\ Matches(last.out.reasoning_results[i], last.args.y, obj.max_err)
                  /\ Len(last.out.candidates[i]) = Len(last.args.pseudo_label)

\* an answer of candidates of two levels whose results differ, the oracle
\* having rejected another candidate on the way
C18_Witness ==
    /\ Returned
    /\ \E i, j \in 1..Len(last.out.candidates) :
          /\ last.out.reasoning_results[i] /= last.out.reasoning_results[j]
          /\ Cardinality(Changed(last.out.candidates[i], last.args.pseudo_label))
                /= Cardinality(Changed(last.out.candidates[j], last.args.pseudo_label))
    /\ \E candidate \in [1..Len(last.args.pseudo_label) -> LabelSpace(kb[last.obj])] :
          ~Agrees(kb[last.obj], candidate, last.args)

(* --------------------------- levels explored --------------------------- *)
\* the levels the search of a call goes through
LevelsOf(obj, args) ==
    Levels(obj, args.pseudo_label, args.y, args.x,
           args.max_revision_num, args.require_more_revision)

\* the oracle calls among calls whose candidate agrees with the target
Kept(obj, args, calls) ==
    SelectSeq(calls, LAMBDA call : Agrees(obj, call.candidate, args))

\* C19: the levels visited are 0, 1, 2, ... without a gap; when a visited
\* level has a match, the first such level is min_k and the levels visited are
\* 0 .. min(min_k + extra_revisions, max_revisions); when none has, they are
\* 0 .. min(max_revisions, n).  The oracle is never called on a candidate
\* built from more than max_revisions indices, the answer is what the visited
\* levels found and nothing else, and with max_revisions = 0 the oracle is
\* called exactly once, on the unmodified sequence.
C19_LevelsExplored ==
    Called =>
        \A obj \in {kb[last.obj]}, args \in {last.args} :
        \A levels \in {LevelsOf(obj, args)} :
        \A calls \in {OracleCalls(obj, args.pseudo_label, levels)} :
        \A kept \in {Kept(obj, args, calls)} :
        \A matching \in {{k \in Range(levels) : MatchAtLevel(obj, args, k)}} :
            /\ levels /= <<>>
            /\ levels[1] = 0
            /\ \A i \in 1..(Len(levels) - 1) : levels[i + 1] = levels[i] + 1
            /\ matching /= {} =>
                  \A min_k \in {MinK(obj, args)} :
                     /\ min_k \in matching
                     /\ \A k \in matching : min_k <= k
                     /\ Range(levels)
                           = 0..Min(min_k + args.require_more_revision, args.max_revision_num)
            /\ matching = {} =>
                  Range(levels) = 0..Min(args.max_revision_num, Len(args.pseudo_label))
            /\ \A i \in 1..Len(calls) :
                  /\ Len(calls[i].revision_idx) <= args.max_revision_num
                  /\ Cardinality(Changed(calls[i].candidate, args.pseudo_label))
                        <= args.max_revision_num
            /\ last.out.raised = "" =>
                  /\ last.out.candidates = [i \in 1..Len(kept) |-> kept[i].candidate]
                  /\ last.out.reasoning_results
                        = [i \in 1..Len(kept) |-> OracleOn(obj, kept[i].candidate, args)]
            /\ args.max_revision_num = 0 =>
                  calls = << [revision_idx |-> <<>>, candidate |-> args.pseudo_label] >>

\* the first match was found at level max_revisions >= 1, so the extra level
\* asked for was not visited and the matches of that one level were returned
C19_Witness ==
    /\ Returned
    /\ last.args.require_more_revision >= 1
    /\ last.args.max_revision_num >= 1
    /\ last.out.candidates /= <<>>
    /\ MinK(kb[last.obj], last.args) = last.args.max_revision_num
    /\ MatchAtLevel(kb[last.obj], last.args, last.args.max_revision_num + 1)
    /\ LevelsOf(kb[last.obj], last.args)
          = [k \in 1..(last.args.max_revision_num + 1) |-> k - 1]

(* ------------------------- order and duplicates ------------------------ *)
\* a precedes b in lexicographic order, a and b of one length
LexLess(a, b) ==
    \E i \in 1..Len(a) : a[i] < b[i] /\ \A j \in 1..(i - 1) : a[j] = b[j]

\* where a label stands in the label space
LabelRank(obj, label) ==
    CHOOSE q \in 1..Len(obj.pseudo_label_list) : obj.pseudo_label_list[q] = label

\* the ranks of the labels an oracle call wrote at its indices
WrittenRanks(obj, call) ==
    [i \in 1..Len(call.revision_idx) |->
        LabelRank(obj, call.candidate[call.revision_idx[i] + 1])]

\* level order, then index-set order, then label-space order: a strict
\* order, so a list is sorted when its neighbours are
Before(obj, a, b) ==
    \/ Len(a.revision_idx) < Len(b.revision_idx)
    \/ /\ Len(a.revision_idx) = Len(b.revision_idx)
       /\ \/ LexLess(a.revision_idx, b.revision_idx)
          \/ /\ a.revision_idx = b.revision_idx
             /\ LexLess(WrittenRanks(obj, a), WrittenRanks(obj, b))

\* the oracle calls of the last search whose candidate agrees with the
\* target, in call order
KeptCalls ==
    Kept(kb[last.obj], last.args,
         OracleCalls(kb[last.obj], last.args.pseudo_label, LevelsOf(kb[last.obj], last.args)))

\* how often candidate m stands in kept with an index set of size k
CountAt(kept, m, k) ==
    Cardinality({i \in 1..Len(kept) :
                    Len(kept[i].revision_idx) = k /\ kept[i].candidate = m})

\* the index sets of size k that reproduce m: they contain the positions m
\* changed, and elsewhere the sequence holds a label of the label space
Reproducing(obj, args, m, k) ==
    {S \in SUBSET (1..Len(args.pseudo_label)) :
        /\ Cardinality(S) = k
        /\ Changed(m, args.pseudo_label) \subseteq S
        /\ \A p \in S \ Changed(m, args.pseudo_label) :
              args.pseudo_label[p] \in LabelSpace(obj)}

\* C20: every overwrite of k indices with labels, k an explored level, is
\* tried once, in level order, then ascending lexicographic index-set order,
\* then label-space order, and the returned lists are the agreeing ones in
\* that order, nothing removed: a candidate that matches at level min_k is
\* returned from an explored level k > min_k once for every index set of size
\* k that contains its changed positions and otherwise covers positions whose
\* original value is in the label space.
C20_NoDeduplication ==
    Returned =>
        \A obj \in {kb[last.obj]}, args \in {last.args}, n \in {Len(last.args.pseudo_label)} :
        \A visited \in {LevelsOf(obj, args)} :
        \A levels \in {Range(visited)} :
        \A calls \in {OracleCalls(obj, args.pseudo_label, visited)} :
        \A kept \in {Kept(obj, args, calls)} :
            /\ \A i \in 1..(Len(calls) - 1) : Before(obj, calls[i], calls[i + 1])
            /\ \A i \in 1..Len(calls) : \A call \in {calls[i]} :
                  /\ Len(call.revision_idx) \in levels
                  /\ \A q \in 1..Len(call.revision_idx) :
                        /\ call.revision_idx[q] \in 0..(n - 1)
                        /\ q > 1 => call.revision_idx[q - 1] < call.revision_idx[q]
                  /\ \A p \in 1..n :
                        IF \E q \in 1..Len(call.revision_idx) : call.revision_idx[q] + 1 = p
                        THEN call.candidate[p] \in LabelSpace(obj)
                        ELSE call.candidate[p] = args.pseudo_label[p]
            /\ \A k \in levels : \A S \in SUBSET (1..n) :
                  Cardinality(S) = k =>
                     \A f \in [S -> LabelSpace(obj)] :
                        \E i \in 1..Len(calls) :
                           /\ {calls[i].revision_idx[q] + 1 :
                                  q \in 1..Len(calls[i].revision_idx)} = S
                           /\ calls[i].candidate = Revised(args.pseudo_label, S, f)
            /\ last.out.candidates = [i \in 1..Len(kept) |-> kept[i].candidate]
            /\ last.out.reasoning_results
                  = [i \in 1..Len(kept) |-> OracleOn(obj, kept[i].candidate, args)]
            /\ kept /= <<>> =>
                  \A min_k \in {MinK(obj, args)} :
                     \A m \in Range(last.out.candidates) :
                        Cardinality(Changed(m, args.pseudo_label)) = min_k =>
                           \A k \in levels :
                              k > min_k =>
                                 CountAt(kept, m, k)
                                    = Cardinality(Reproducing(obj, args, m, k))

\* a candidate of the minimal level is returned again from a higher level
\* through one index set, while another index set of that size, which also
\* contains its changed positions, does not reproduce it
C20_Witness ==
    /\ Returned
    /\ \E i \in 1..Len(last.out.candidates) :
          \E k \in Range(LevelsOf(kb[last.obj], last.args)) :
             LET m == last.out.candidates[i]
             IN  /\ k > MinK(kb[last.obj], last.args)
                 /\ Cardinality(Changed(m, last.args.pseudo_label))
                       = MinK(kb[last.obj], last.args)
                 /\ CountAt(KeptCalls, m, k) >= 1
                 /\ \E S \in SUBSET (1..Len(last.args.pseudo_label)) :
                       /\ Cardinality(S) = k
                       /\ Changed(m, last.args.pseudo_label) \subseteq S
                       /\ S \notin Reproducing(kb[last.obj], last.args, m, k)

(* ------------------------- label-space invariant ----------------------- *)
\* C21: every value at every position of every returned candidate belongs
\* to the label space, whatever sequence the search was given.
C21_CandidatesInLabelSpace ==
    Returned =>
        \A i \in 1..Len(last.out.candidates) :
            \A p \in 1..Len(last.out.candidates[i]) :
                last.out.candidates[i][p] \in LabelSpace(kb[last.obj])

(* ------------------------ structure of the cache ----------------------- *)
\* the links other than the sentinel
EntryLinks(self) == (1..Len(self.links)) \ {self.root}

\* PREV and NEXT are inverse to each other on every link, and the walk from
\* the root along NEXT goes through every other link once and comes back
WellFormedRing(self) ==
    /\ self.root \in 1..Len(self.links)
    /\ \A l \in 1..Len(self.links) :
          /\ self.links[l].NEXT \in 1..Len(self.links)
          /\ self.links[l].PREV \in 1..Len(self.links)
          /\ self.links[self.links[l].NEXT].PREV = l
          /\ self.links[self.links[l].PREV].NEXT = l
    /\ Len(ListLinks(self)) = Len(self.links) - 1
    /\ Range(ListLinks(self)) = EntryLinks(self)

\* the dictionary and the links hold the same keys, each key once, and a key
\* is mapped to the link that carries it
DictMatchesLinks(self) ==
    /\ self.links[self.root].KEY = None
    /\ self.links[self.root].RESULT = None
    /\ DOMAIN self.cache_dict = {self.links[l].KEY : l \in EntryLinks(self)}
    /\ \A l, m \in EntryLinks(self) : self.links[l].KEY = self.links[m].KEY => l = m
    /\ \A k \in DOMAIN self.cache_dict :
          /\ self.cache_dict[k] \in EntryLinks(self)
          /\ self.links[self.cache_dict[k]].KEY = k

\* every link carries the result of the search of the call that stored it
ResultsAsStored(self) ==
    \A l \in EntryLinks(self) :
        /\ self.links[l].KEY = CacheKey(self.key_func, written_by[l].args)
        /\ self.links[l].RESULT = func(kb[written_by[l].obj], written_by[l].args)

\* C22: after any sequence of lookups on an enabled cache the recency list is
\* a well-formed circular doubly linked list through the sentinel, the
\* sentinel holds no key, the dictionary's keys are the keys of the other
\* links, each mapped to the link that carries it and its result, no key is
\* in two links, and every lookup adds one to hits + misses, which nothing
\* else changes.
C22_StructurallyConsistent ==
    /\ [](cache_instance.has_init =>
             /\ WellFormedRing(cache_instance)
             /\ DictMatchesLinks(cache_instance)
             /\ ResultsAsStored(cache_instance))
    /\ [][IF LookupStep
          THEN cache_instance'.hits + cache_instance'.misses
                  = (IF cache_instance.has_init
                     THEN cache_instance.hits + cache_instance.misses ELSE 0) + 1
          ELSE cache_instance'.hits + cache_instance'.misses
                  = cache_instance.hits + cache_instance.misses
       ]_vars

\* a cache that has answered a hit and then evicted: the sentinel has moved
\* to another link and two entries are stored
C22_Witness ==
    /\ Cached
    /\ cache_instance.root /= 1
    /\ cache_instance.hits >= 1
    /\ last.evicted /= None
    /\ Cardinality(DOMAIN cache_instance.cache_dict) >= 2

(* ------------------------- interleaved searches ------------------------ *)
\* what a finished call handed back: its lists as the heap holds them now
Handed(p) ==
    [raised |-> frames[p].raised,
     candidates |-> [i \in 1..Len(frames[p].candidates) |-> heap[frames[p].candidates[i]]],
     reasoning_results |-> frames[p].reasoning_results]

\* the call whose local variables a step changes
Stepping(p) == frames'[p] /= frames[p]

\* C23: a search call writes only its own locals and its own copies: the
\* input list, the arguments of a running call, the instance and the argument
\* tuples never change, a step changes no list made by the other call, and a
\* call that ends among the steps of another has the candidates and results
\* of the same call run alone.
C23_SearchIsPure ==
    /\ [](\A p \in DOMAIN frames :
             /\ frames[p].pc /= "idle" => frames[p].args.pseudo_label = heap[Input]
             /\ frames[p].pc = "done" => Handed(p) = func(kb[1], frames[p].args))
    /\ [][/\ kb' = kb
          /\ inputs' = inputs
          /\ \A p \in DOMAIN frames :
                frames[p].pc /= "idle" => frames'[p].args = frames[p].args
          /\ \A o \in DOMAIN heap :
                heap'[o] /= heap[o] => o /= Input /\ Stepping(o[1])
          /\ \A p \in DOMAIN frames, q \in DOMAIN frames :
                Stepping(p) /\ Stepping(q) => p = q
       ]_vars

\* one call has returned candidates while the other, given another target,
\* is half-way through writing two positions of a copy and has kept
\* candidates of its own
C23_Witness ==
    /\ DOMAIN frames = Calls
    /\ frames[1].pc = "done" /\ frames[1].raised = "" /\ frames[1].candidates /= <<>>
    /\ frames[2].pc = "write" /\ frames[2].w = 2 /\ frames[2].candidates /= <<>>
    /\ frames[1].args.y /= frames[2].args.y

====
